---- MODULE Spec2Model ----
(***************************************************************************)
(* A model of assume-role: the credentials file (an INI file of profile    *)
(* sections), the AssumeRole request builder, the command line, and the    *)
(* orchestrator that obtains temporary credentials and stores them.        *)
(*                                                                         *)
(* The repository holds two generations of the program.  src/src/main.rs   *)
(* is a complete program (own Cmdline, own CredentialFile).                *)
(* src/src/settings.rs and src/src/credential_file.rs are the command line *)
(* and the credentials file of the newer generation, whose main function   *)
(* is not among the sources.                                               *)
(*                                                                         *)
(* Encodings.  Option<T>: None is <<>>, Some(x) is <<x>>.  A file on disk  *)
(* is [exists, lines]; a line is <<kind, a, b>> with kind "sec" (a section *)
(* header [a]), "kv" (a = b) or "bad" (text the INI parser rejects).  An   *)
(* Ini value is the ordered multimap of the ini crate: a sequence of       *)
(* [name, props], props a sequence of <<key, value>>.                      *)
(***************************************************************************)
EXTENDS Integers, Sequences, FiniteSets, TLC

VARIABLES
  disk,      \* the destination credentials file
  disk0,     \* the destination credentials file when the run started
  pc,        \* where the run is
  cf,        \* the CredentialFile in memory (its Ini)
  profile,   \* the profile passed to set_credentials
  creds,     \* the credentials passed to set_credentials
  err,       \* the context of the error the run ended with
  writes,    \* how many times the destination file was written
  argv,      \* the command line as given
  cmdline,   \* the parsed Cmdline
  request,   \* the AssumeRoleRequest, once built
  response,  \* the answer of the AssumeRole call
  path,      \* the resolved destination path
  stdout,    \* what the run printed on standard output
  now,       \* the system clock, in seconds since the epoch
  procs      \* the concurrent invocations (only in SpecConc)

vars == <<disk, disk0, pc, cf, profile, creds, err, writes, argv, cmdline, request, response, path, stdout, now, procs>>

fileVars == <<disk, disk0, pc, cf, profile, creds, err, writes>>

runVars == <<argv, cmdline, request, response, path, stdout, now>>

\* ------------------------------------------------------------- bounds
\* The longest credentials file, in lines, of the file-level specification.
MaxLines == 4

\* The longest credentials file, in lines, a whole run starts from.
MaxDiskLines == 2

\* The longest list of --policy ARNs.
MaxPolicies == 2

\* How far the clock advances before the session name is read.
MaxClock == 1

\* ------------------------------------------------------------- values
None == <<>>

Some(x) == <<x>>

\* The name of the general section (the section of keys before any header).
General == "<general>"

SecNames == {"default", "work", "other"}

DestProfiles == {"default", "work"}

FileKeys == {"aws_session_token", "region"}

FileVals == {"OLD", "us-west-2"}

CredsA ==
  [access_key_id |-> "AK", secret_access_key |-> "SK", session_token |-> "TK",
   expiration |-> "2030-01-01T00:00:00Z"]

CredsB ==
  [access_key_id |-> "AK2", secret_access_key |-> "SK2", session_token |-> "TK2",
   expiration |-> "2031-01-01T00:00:00Z"]

Credentials == {CredsA, CredsB}

NoCreds == [access_key_id |-> "", secret_access_key |-> "", session_token |-> "", expiration |-> ""]

LineAlphabet ==
  {<<"sec", n, "">> : n \in SecNames}
    \cup {<<"kv", k, v>> : k \in FileKeys, v \in FileVals}
    \cup {<<"bad", "", "">>}

SeqsUpTo(S, n) == UNION {[1..m -> S] : m \in 0..n}

NoFile == [exists |-> FALSE, lines |-> <<>>]

FilesUpTo(n) == {NoFile} \cup {[exists |-> TRUE, lines |-> l] : l \in SeqsUpTo(LineAlphabet, n)}

\* ------------------------------------------------------------- the ini crate, as the program uses it
HasSection(ini, name) == \E i \in 1..Len(ini) : ini[i].name = name

FirstIndex(ini, name) == CHOOSE i \in 1..Len(ini) : ini[i].name = name /\ \A j \in 1..(i-1) : ini[j].name # name

LastIndex(ini, name) == CHOOSE i \in 1..Len(ini) : ini[i].name = name /\ \A j \in (i+1)..Len(ini) : ini[j].name # name

\* Ini::new()
Ini_new == <<>>

\* The parser's handling of a key line: the pair is appended to the last
\* section of the current name; the general section is created on demand.
Ini_append(ini, name, k, v) ==
  IF HasSection(ini, name)
    THEN [ini EXCEPT ![LastIndex(ini, name)].props = Append(@, <<k, v>>)]
    ELSE Append(ini, [name |-> name, props |-> << <<k, v>> >>])

RECURSIVE ParseLines(_, _, _)
ParseLines(lines, ini, cursec) ==
  IF lines = <<>> THEN [ok |-> TRUE, ini |-> ini]
  ELSE LET l == Head(lines) IN
    CASE l[1] = "sec" -> ParseLines(Tail(lines), Append(ini, [name |-> l[2], props |-> <<>>]), l[2])
      [] l[1] = "kv" -> ParseLines(Tail(lines), Ini_append(ini, cursec, l[2], l[3]), cursec)
      [] OTHER -> [ok |-> FALSE, ini |-> Ini_new]

\* Ini::load_from_file: an I/O error when the path does not exist, a parse
\* error on malformed text.
Ini_load_from_file(d) ==
  IF ~d.exists THEN [ok |-> FALSE, ini |-> Ini_new]
  ELSE ParseLines(d.lines, Ini_new, General)

\* Ini::delete(Some(name)): removes every section of that name.
Ini_delete_noop(ini, name) == ini

Ini_delete_all(ini, name) == Ini_new

Ini_delete(ini, name) == SelectSeq(ini, LAMBDA s : s.name # name)

\* Properties::insert: replaces the values of the key.
Props_insert(props, k, v) == Append(SelectSeq(props, LAMBDA p : p[1] # k), <<k, v>>)

\* ini.with_section(Some(name)).set(k, v)
Ini_set(ini, name, k, v) ==
  IF HasSection(ini, name)
    THEN [ini EXCEPT ![FirstIndex(ini, name)].props = Props_insert(@, k, v)]
    ELSE Append(ini, [name |-> name, props |-> << <<k, v>> >>])

RECURSIVE Ini_write(_)
\* Ini::write_to: each section in order, its header (none for the general
\* section) and then its pairs.
Ini_write(ini) ==
  IF ini = <<>> THEN <<>>
  ELSE LET s == Head(ini) IN
    (IF s.name = General THEN <<>> ELSE << <<"sec", s.name, "">> >>)
      \o [i \in 1..Len(s.props) |-> <<"kv", s.props[i][1], s.props[i][2]>>]
      \o Ini_write(Tail(ini))

\* ------------------------------------------------------------- CredentialFile (credential_file.rs)
load_strict(d) == Ini_load_from_file(d)

load(d) ==
  IF ~d.exists THEN [ok |-> TRUE, ini |-> Ini_new]
  ELSE Ini_load_from_file(d)

set_credentials_fresh(ini, p, c) ==
  Ini_set(
    Ini_set(
      Ini_set(Ini_new, p, "aws_access_key_id", c.access_key_id),
      p, "aws_secret_access_key", c.secret_access_key),
    p, "aws_session_token", c.session_token)

set_credentials(ini, p, c) ==
  Ini_set(
    Ini_set(
      Ini_set(Ini_delete(ini, p), p, "aws_access_key_id", c.access_key_id),
      p, "aws_secret_access_key", c.secret_access_key),
    p, "aws_session_token", c.session_token)

save(ini) == [exists |-> TRUE, lines |-> Ini_write(ini)]

\* ------------------------------------------------------------- the state of a run before it starts
NoArgv ==
  [role |-> None, session_name |-> None, duration |-> None, external_id |-> None,
   policy_json |-> None, policies |-> None, mfa_serial_number |-> None, mfa_token |-> None,
   dest_file |-> None, dest_profile |-> None, credential_process |-> FALSE]

NoCmdline == [parsed |-> FALSE]

NoResponse == [status |-> "pending", credentials |-> None]

RunIdle ==
  /\ argv = NoArgv
  /\ cmdline = NoCmdline
  /\ request = None
  /\ response = NoResponse
  /\ path = None
  /\ stdout = None
  /\ now = 0

\* ------------------------------------------------------------- the file-level specification
\* load, set_credentials and save on one file, in the order main calls them.
FInit ==
  /\ disk \in FilesUpTo(MaxLines)
  /\ disk0 = disk
  /\ pc = "start"
  /\ cf = Ini_new
  /\ profile = ""
  /\ creds = NoCreds
  /\ err = ""
  /\ writes = 0
  /\ RunIdle
  /\ procs = <<>>

FLoad ==
  /\ pc = "start"
  /\ LET r == load(disk) IN
       IF r.ok
         THEN /\ cf' = r.ini
              /\ pc' = "loaded"
              /\ err' = err
         ELSE /\ cf' = cf
              /\ pc' = "load_failed"
              /\ err' = "unable to load credential file"
  /\ UNCHANGED <<disk, disk0, profile, creds, writes>>
  /\ UNCHANGED <<runVars, procs>>

FSetCredentials ==
  /\ pc = "loaded"
  /\ \E p \in DestProfiles, c \in Credentials :
       /\ cf' = set_credentials(cf, p, c)
       /\ profile' = p
       /\ creds' = c
  /\ pc' = "set"
  /\ UNCHANGED <<disk, disk0, err, writes>>
  /\ UNCHANGED <<runVars, procs>>

FSave ==
  /\ pc = "set"
  /\ disk' = save(cf)
  /\ writes' = writes + 1
  /\ pc' = "saved"
  /\ UNCHANGED <<disk0, cf, profile, creds, err>>
  /\ UNCHANGED <<runVars, procs>>

\* File::create fails (no such directory, no permission): nothing is written.
FSaveFails ==
  /\ pc = "set"
  /\ pc' = "save_failed"
  /\ err' = "unable to save credential file"
  /\ UNCHANGED <<disk, disk0, cf, profile, creds, writes>>
  /\ UNCHANGED <<runVars, procs>>

FNext == FLoad \/ FSetCredentials \/ FSave \/ FSaveFails

SpecFile == FInit /\ [][FNext]_vars

\* ------------------------------------------------------------- Cmdline (main.rs)
RoleArn == "arn:aws:iam::111:role/R"

Opt(S) == {None} \cup {Some(x) : x \in S}

\* --duration values a user may type.
DurationInputs == {-1, 0, 900, 43200, 43201, 65536}

\* The options that do not steer the run: all absent, or all given.
Extras ==
  { [external_id |-> None, policy_json |-> None, policies |-> None,
     mfa_serial_number |-> None, mfa_token |-> None],
    [external_id |-> Some("ext"), policy_json |-> Some("{}"),
     policies |-> Some(<<"arn:p1", "arn:p2">>),
     mfa_serial_number |-> Some("mfa-dev"), mfa_token |-> Some("123456")] }

RunArgvs ==
  { [role |-> r, session_name |-> s, duration |-> d, external_id |-> x.external_id,
     policy_json |-> x.policy_json, policies |-> x.policies,
     mfa_serial_number |-> x.mfa_serial_number, mfa_token |-> x.mfa_token,
     dest_file |-> f, dest_profile |-> dp, credential_process |-> cp] :
       r \in Opt({RoleArn}), s \in Opt({"s1"}), d \in Opt(DurationInputs), x \in Extras,
       f \in Opt({"creds.ini"}), dp \in Opt({"work"}), cp \in BOOLEAN }

\* The largest u16: duration is an Option<u16>.
U16Max == 65535

\* Whether --duration <d> parses as a u16.
main_duration_ok(d) == d = None \/ (d[1] >= 0 /\ d[1] <= U16Max)

\* Whether the command line gives the session name main.rs requires.
main_session_name_ok(a) == a.session_name # None

\* Cmdline::from_args: role and session-name are required, duration is a
\* u16, dest-profile defaults to "default"; --credential-process is not an
\* option of this Cmdline.
main_Cmdline_parse(a) ==
  IF a.role = None \/ ~main_session_name_ok(a) \/ ~main_duration_ok(a.duration) \/ a.credential_process
    THEN [ok |-> FALSE, cmdline |-> NoCmdline]
    ELSE [ok |-> TRUE,
          cmdline |->
            [parsed |-> TRUE,
             duration |-> a.duration,
             external_id |-> a.external_id,
             policy_json |-> a.policy_json,
             policies |-> a.policies,
             role_arn |-> a.role[1],
             session_name |-> a.session_name[1],
             mfa_serial_number |-> a.mfa_serial_number,
             mfa_token |-> a.mfa_token,
             dest_credential_file |-> a.dest_file,
             dest_profile |-> IF a.dest_profile = None THEN "default" ELSE a.dest_profile[1]]]

\* ------------------------------------------------------------- the request builder (main.rs)
\* policies.iter().map(|arn| PolicyDescriptorType { arn: Some(arn) }).collect()
PolicyDescriptors(arns) == [i \in 1..Len(arns) |-> [arn |-> Some(arns[i])]]

duration_or_zero(d) == IF d = None THEN Some(0) ELSE d

\* cmdline.duration.map(|v| v as i64): a u16 widens without change.
duration_seconds(d) == IF d = None THEN None ELSE Some(d[1])

build_assume_role_request(c) ==
  [duration_seconds |-> duration_seconds(c.duration),
   external_id |-> c.external_id,
   policy |-> c.policy_json,
   policy_arns |-> IF c.policies = None THEN None ELSE Some(PolicyDescriptors(c.policies[1])),
   role_arn |-> c.role_arn,
   role_session_name |-> c.session_name,
   serial_number |-> c.mfa_serial_number,
   token_code |-> c.mfa_token]

\* ------------------------------------------------------------- the destination path (main.rs)
Homes == Opt({"/home/u"})

determine_credential_file(dest, home) ==
  IF dest # None THEN [ok |-> TRUE, path |-> Some(<<dest[1]>>)]
  ELSE IF home = None THEN [ok |-> FALSE, path |-> None]
  ELSE [ok |-> TRUE, path |-> Some(<<home[1], ".aws", "credentials">>)]

\* ------------------------------------------------------------- CredentialFile::load (main.rs)
main_load_lenient(d) ==
  IF Ini_load_from_file(d).ok THEN Ini_load_from_file(d) ELSE [ok |-> TRUE, ini |-> Ini_new]

main_load(d) == Ini_load_from_file(d)

\* ------------------------------------------------------------- main (main.rs)
Init ==
  /\ disk \in FilesUpTo(MaxDiskLines)
  /\ disk0 = disk
  /\ pc = "start"
  /\ cf = Ini_new
  /\ profile = ""
  /\ creds = NoCreds
  /\ err = ""
  /\ writes = 0
  /\ argv \in RunArgvs
  /\ cmdline = NoCmdline
  /\ request = None
  /\ response = NoResponse
  /\ path = None
  /\ stdout = None
  /\ now = 0
  /\ procs = <<>>

\* let cmdline = Cmdline::parse(); a usage error ends the process.
Parse ==
  /\ pc = "start"
  /\ LET r == main_Cmdline_parse(argv) IN
       IF r.ok
         THEN /\ cmdline' = r.cmdline
              /\ pc' = "parsed"
              /\ err' = err
         ELSE /\ cmdline' = cmdline
              /\ pc' = "usage"
              /\ err' = "usage"
  /\ UNCHANGED <<disk, disk0, cf, profile, creds, writes, argv, request, response, path, stdout, now, procs>>

\* build_sts_client(&cmdline)?
BuildStsClient ==
  /\ pc = "parsed"
  /\ pc' = "client"
  /\ UNCHANGED <<disk, disk0, cf, profile, creds, err, writes, runVars, procs>>

\* ProfileProvider::new() or HttpClient::new() fails.
BuildStsClientFails ==
  /\ pc = "parsed"
  /\ pc' = "failed"
  /\ err' = "failed to create request dispatcher"
  /\ UNCHANGED <<disk, disk0, cf, profile, creds, writes, runVars, procs>>

BuildRequest ==
  /\ pc = "client"
  /\ request' = Some(build_assume_role_request(cmdline))
  /\ pc' = "request"
  /\ UNCHANGED <<disk, disk0, cf, profile, creds, err, writes, argv, cmdline, response, path, stdout, now, procs>>

\* sts_client.assume_role(assume_role_request).await, answered with
\* credentials or without.
AssumeRole ==
  /\ pc = "request"
  /\ \E c \in Opt(Credentials) : response' = [status |-> "ok", credentials |-> c]
  /\ pc' = "responded"
  /\ UNCHANGED <<disk, disk0, cf, profile, creds, err, writes, argv, cmdline, request, path, stdout, now, procs>>

\* ... answered with an error: the ? returns it.
AssumeRoleFails ==
  /\ pc = "request"
  /\ response' = [status |-> "error", credentials |-> None]
  /\ pc' = "failed"
  /\ err' = "assume role failed"
  /\ UNCHANGED <<disk, disk0, cf, profile, creds, writes, argv, cmdline, request, path, stdout, now, procs>>

\* result.credentials.with_context(|| "no credentials in response")?
TakeCredentials ==
  /\ pc = "responded"
  /\ IF response.credentials = None
       THEN /\ pc' = "failed"
            /\ err' = "no credentials in response"
            /\ creds' = creds
       ELSE /\ pc' = "credentials"
            /\ err' = err
            /\ creds' = response.credentials[1]
  /\ UNCHANGED <<disk, disk0, cf, profile, writes, runVars, procs>>

\* determine_credential_file(&cmdline.dest_credential_file)?
DetermineCredentialFile ==
  /\ pc = "credentials"
  /\ \E home \in Homes :
       LET r == determine_credential_file(cmdline.dest_credential_file, home) IN
         IF r.ok
           THEN /\ path' = r.path
                /\ pc' = "path"
                /\ err' = err
           ELSE /\ path' = path
                /\ pc' = "failed"
                /\ err' = "unable to determine home directory"
  /\ UNCHANGED <<disk, disk0, cf, profile, creds, writes, argv, cmdline, request, response, stdout, now, procs>>

\* CredentialFile::load(&credential_filename)?
Load ==
  /\ pc = "path"
  /\ LET r == main_load(disk) IN
       IF r.ok
         THEN /\ cf' = r.ini
              /\ pc' = "loaded"
              /\ err' = err
         ELSE /\ cf' = cf
              /\ pc' = "failed"
              /\ err' = "unable to load credential file"
  /\ UNCHANGED <<disk, disk0, profile, creds, writes, runVars, procs>>

\* credential_file.set_credentials(&cmdline.dest_profile, &credentials)
SetCredentials ==
  /\ pc = "loaded"
  /\ cf' = set_credentials(cf, cmdline.dest_profile, creds)
  /\ profile' = cmdline.dest_profile
  /\ pc' = "set"
  /\ UNCHANGED <<disk, disk0, creds, err, writes, runVars, procs>>

\* credential_file.save(&credential_filename)?; Ok(())
Save ==
  /\ pc = "set"
  /\ disk' = save(cf)
  /\ writes' = writes + 1
  /\ pc' = "done"
  /\ UNCHANGED <<disk0, cf, profile, creds, err, runVars, procs>>

\* File::create fails: nothing is written and the ? returns the error.
SaveFails ==
  /\ pc = "set"
  /\ pc' = "failed"
  /\ err' = "unable to save credential file"
  /\ UNCHANGED <<disk, disk0, cf, profile, creds, writes, runVars, procs>>

Next ==
  \/ Parse
  \/ BuildStsClient
  \/ BuildStsClientFails
  \/ BuildRequest
  \/ AssumeRole
  \/ AssumeRoleFails
  \/ TakeCredentials
  \/ DetermineCredentialFile
  \/ Load
  \/ SetCredentials
  \/ Save
  \/ SaveFails

Spec == Init /\ [][Next]_vars

\* The run ended with exit status 0.
Succeeded == pc = "done"

\* The run ended with a failure status.
Failed == pc \in {"failed", "usage"}

\* ------------------------------------------------------------- properties of the credentials file
SectionsNamed(ini, name) == SelectSeq(ini, LAMBDA s : s.name = name)

SectionsOther(ini, name) == SelectSeq(ini, LAMBDA s : s.name # name)

PropSet(props) == {props[i] : i \in 1..Len(props)}

ExpectedProps(c) ==
  { <<"aws_access_key_id", c.access_key_id>>,
    <<"aws_secret_access_key", c.secret_access_key>>,
    <<"aws_session_token", c.session_token>> }

\* The sections a file holds: none when the path does not exist.
SectionsOnDisk(d) == IF d.exists THEN Ini_load_from_file(d).ini ELSE Ini_new

\* The file holds one section p, with exactly the three keys of c.
HoldsCredentials(d, p, c) ==
  /\ d.exists
  /\ Ini_load_from_file(d).ok
  /\ LET secs == SectionsNamed(SectionsOnDisk(d), p) IN
       /\ Len(secs) = 1
       /\ PropSet(secs[1].props) = ExpectedProps(c)

Malformed(d) == d.exists /\ \E i \in 1..Len(d.lines) : d.lines[i][1] = "bad"

AfterSet == pc \in {"set", "saved", "save_failed"}

\* C1: after set_credentials(P, C) there is one section P and it holds
\* exactly the three credential keys, with the values of C; whatever key
\* the section held before is gone.
C1_SectionReplaced ==
  AfterSet =>
    LET secs == SectionsNamed(cf, profile) IN
      /\ Len(secs) = 1
      /\ Len(secs[1].props) = 3
      /\ PropSet(secs[1].props) = ExpectedProps(creds)

\* The file held a section P with a region key and a stale session token
\* before set_credentials(P, C) ran.
C1_Witness ==
  /\ pc = "set"
  /\ \E i \in 1..Len(SectionsOnDisk(disk0)) :
       LET s == SectionsOnDisk(disk0)[i] IN
         /\ s.name = profile
         /\ \E v \in FileVals : <<"region", v>> \in PropSet(s.props)
         /\ \E v \in FileVals : <<"aws_session_token", v>> \in PropSet(s.props)

\* C2: load; set_credentials(P, C); save leaves the sections other than P
\* as they were: the same sections, in the same order, with the same keys
\* and values.
C2_OtherSectionsKept ==
  pc = "saved" =>
    /\ Ini_load_from_file(disk).ok
    /\ SectionsOther(SectionsOnDisk(disk), profile) = SectionsOther(SectionsOnDisk(disk0), profile)

\* A saved file that held section P, and another section with keys, before.
C2_Witness ==
  /\ pc = "saved"
  /\ HasSection(SectionsOnDisk(disk0), profile)
  /\ \E i \in 1..Len(SectionsOnDisk(disk0)) :
       /\ SectionsOnDisk(disk0)[i].name # profile
       /\ Len(SectionsOnDisk(disk0)[i].props) >= 2

\* C3: load of a path that does not exist succeeds with no section at all;
\* load of an existing file the parser rejects fails.
C3_LoadMissingIsEmpty ==
  pc # "start" =>
    /\ ~disk0.exists => (pc # "load_failed" /\ (pc = "loaded" => cf = <<>>))
    /\ Malformed(disk0) => (pc = "load_failed" /\ err = "unable to load credential file")

\* The path did not exist and load returned.
C3_Witness == pc = "loaded" /\ ~disk0.exists /\ cf = <<>>

\* A malformed file was refused.
C3_WitnessMalformed == pc = "load_failed" /\ Malformed(disk0)

\* ------------------------------------------------------------- properties of a run of main.rs
EnvironmentErrors == {"unable to determine home directory", "unable to save credential file"}

\* C4: with credentials returned and no destination file beforehand, the
\* run ends with status 0 and the file holds the destination profile's
\* section with the three keys (home directory known, file creatable).
C4_FileCreatedWhenMissing ==
  ( /\ ~disk0.exists
    /\ response.credentials # None
    /\ pc \in {"done", "failed"}
    /\ err \notin EnvironmentErrors )
  =>
    /\ Succeeded
    /\ disk.exists
    /\ LET secs == SectionsNamed(SectionsOnDisk(disk), cmdline.dest_profile) IN
         /\ Len(secs) = 1
         /\ PropSet(secs[1].props) = ExpectedProps(response.credentials[1])

PreSaveErrors ==
  {"usage", "failed to create request dispatcher", "assume role failed",
   "no credentials in response", "unable to determine home directory",
   "unable to load credential file"}

\* C7: a failure before the save ends the run with a failure status and
\* the file as it was; a file that cannot be parsed is never replaced; the
\* file is written at most once, and only by a run that obtained
\* credentials, loaded the file and set the section in memory.
C7_NoWriteBeforeSuccess ==
  /\ err \in PreSaveErrors => (Failed /\ disk = disk0 /\ writes = 0)
  /\ Malformed(disk0) => (disk = disk0 /\ ~Succeeded)
  /\ writes <= 1
  /\ writes = 1 =>
       /\ Succeeded
       /\ response.credentials = Some(creds)
       /\ Ini_load_from_file(disk0).ok
       /\ cf = set_credentials(Ini_load_from_file(disk0).ini, cmdline.dest_profile, creds)
       /\ disk = save(cf)
  /\ writes = 0 => disk = disk0

\* Credentials were obtained and the path resolved, and the load failed.
C7_Witness ==
  /\ pc = "failed"
  /\ err = "unable to load credential file"
  /\ Malformed(disk0)
  /\ response.credentials # None
  /\ path # None

\* C8: a command line without --session-name is accepted, and the request
\* carries the given name, or "assume-role-" and the time in seconds when
\* none was given.
C8_SessionNameOptional ==
  /\ ( /\ pc # "start"
       /\ argv.session_name = None
       /\ argv.role # None
       /\ main_duration_ok(argv.duration)
       /\ ~argv.credential_process ) => pc # "usage"
  /\ request # None =>
       IF argv.session_name # None
         THEN request[1].role_session_name = argv.session_name[1]
         ELSE request[1].role_session_name = <<"assume-role-", now>>

\* C9: a duration that parsing accepts, and one a request carries, lies in
\* [900, 43200].
C9_DurationInRange ==
  /\ (cmdline.parsed /\ cmdline.duration # None) =>
       (cmdline.duration[1] >= 900 /\ cmdline.duration[1] <= 43200)
  /\ (request # None /\ request[1].duration_seconds # None) =>
       (request[1].duration_seconds[1] >= 900 /\ request[1].duration_seconds[1] <= 43200)

\* ------------------------------------------------------------- the request builder on every Cmdline
PolicyArns == {"arn:p1", "arn:p2"}

\* The Cmdline records main.rs can parse: every option absent, empty or set
\* independently of the others.
ReqCmdlines ==
  { [parsed |-> TRUE, duration |-> d, external_id |-> e, policy_json |-> pj, policies |-> ps,
     role_arn |-> RoleArn, session_name |-> sn, mfa_serial_number |-> ms, mfa_token |-> mt,
     dest_credential_file |-> None, dest_profile |-> "default"] :
       d \in Opt({0, 900, U16Max}), e \in Opt({"", "ext"}), pj \in Opt({"", "{}"}),
       ps \in Opt(SeqsUpTo(PolicyArns, MaxPolicies)), sn \in {"", "s1"},
       ms \in Opt({"", "mfa-dev"}), mt \in Opt({"", "123456"}) }

RInit ==
  /\ disk = NoFile
  /\ disk0 = disk
  /\ pc = "client"
  /\ cf = Ini_new
  /\ profile = ""
  /\ creds = NoCreds
  /\ err = ""
  /\ writes = 0
  /\ argv = NoArgv
  /\ cmdline \in ReqCmdlines
  /\ request = None
  /\ response = NoResponse
  /\ path = None
  /\ stdout = None
  /\ now = 0
  /\ procs = <<>>

RNext == BuildRequest

SpecReq == RInit /\ [][RNext]_vars

\* C5: the request carries role_arn and role_session_name, and each
\* optional field exactly when the Cmdline has it, with its value: an
\* absent option is None in the request, not "", not an empty list, not 0.
C5_RequestMirrorsCmdline ==
  request # None =>
    LET q == request[1] IN
      /\ q.role_arn = cmdline.role_arn
      /\ q.role_session_name = cmdline.session_name
      /\ q.duration_seconds = cmdline.duration
      /\ q.external_id = cmdline.external_id
      /\ q.policy = cmdline.policy_json
      /\ q.serial_number = cmdline.mfa_serial_number
      /\ q.token_code = cmdline.mfa_token
      /\ (q.policy_arns = None) <=> (cmdline.policies = None)
      /\ cmdline.policies # None =>
           /\ Len(q.policy_arns[1]) = Len(cmdline.policies[1])
           /\ \A i \in 1..Len(cmdline.policies[1]) :
                q.policy_arns[1][i] = [arn |-> Some(cmdline.policies[1][i])]

\* A request built from a Cmdline with absent options next to empty ones.
C5_Witness ==
  /\ request # None
  /\ cmdline.duration = None
  /\ cmdline.mfa_token = None
  /\ cmdline.external_id = Some("")
  /\ cmdline.policies = Some(<<>>)
  /\ request[1].policy_arns = Some(<<>>)
  /\ request[1].duration_seconds = None

\* ------------------------------------------------------------- Cmdline (settings.rs)
\* The largest i32: duration is an Option<i32>.
I32Max == 2147483647

\* Whether --duration <d> parses as an i32 (every integer the model can
\* write does).
Cmdline_duration_ok(d) == d = None \/ (d[1] >= -I32Max - 1 /\ d[1] <= I32Max)

credential_process_ignored(a) == FALSE

\* --credential-process is a flag: false unless given.
Cmdline_credential_process(a) == a.credential_process

\* Cmdline::from_args: only role is required.
Cmdline_parse(a) ==
  IF a.role = None \/ ~Cmdline_duration_ok(a.duration)
    THEN [ok |-> FALSE, cmdline |-> NoCmdline]
    ELSE [ok |-> TRUE,
          cmdline |->
            [parsed |-> TRUE,
             duration |-> a.duration,
             external_id |-> a.external_id,
             policy_json |-> a.policy_json,
             policies |-> a.policies,
             role_arn |-> a.role[1],
             session_name |-> a.session_name,
             mfa_serial_number |-> a.mfa_serial_number,
             mfa_token |-> a.mfa_token,
             credential_file |-> a.dest_file,
             dest_profile |-> IF a.dest_profile = None THEN "default" ELSE a.dest_profile[1],
             credential_process |-> Cmdline_credential_process(a)]]

\* Cmdline::session_name at time t: the given name, or "assume-role-" and
\* the seconds since the epoch.  A name is a sequence of pieces.
session_name(c, t) ==
  IF c.session_name # None THEN <<c.session_name[1]>> ELSE <<"assume-role-", t>>

\* Cmdline::determine_credential_file
Cmdline_determine_credential_file(c, home) ==
  IF c.credential_file # None THEN [ok |-> TRUE, path |-> Some(<<c.credential_file[1]>>)]
  ELSE IF home = None THEN [ok |-> FALSE, path |-> None]
  ELSE [ok |-> TRUE, path |-> Some(<<home[1], ".aws", "credentials">>)]

\* ------------------------------------------------------------- the newer main
\* The request of the newer generation: the options as in main.rs, the
\* session name read from Cmdline::session_name when the request is built.
new_build_assume_role_request(c, t) ==
  [duration_seconds |-> duration_seconds(c.duration),
   external_id |-> c.external_id,
   policy |-> c.policy_json,
   policy_arns |-> IF c.policies = None THEN None ELSE Some(PolicyDescriptors(c.policies[1])),
   role_arn |-> c.role_arn,
   role_session_name |-> session_name(c, t),
   serial_number |-> c.mfa_serial_number,
   token_code |-> c.mfa_token]

\* The credential-process JSON object.
emit(c) ==
  [Version |-> 1, AccessKeyId |-> c.access_key_id, SecretAccessKey |-> c.secret_access_key,
   SessionToken |-> c.session_token, Expiration |-> c.expiration]

NewArgvs ==
  { [role |-> r, session_name |-> s, duration |-> d, external_id |-> None,
     policy_json |-> None, policies |-> None, mfa_serial_number |-> None, mfa_token |-> None,
     dest_file |-> f, dest_profile |-> dp, credential_process |-> cp] :
       r \in Opt({RoleArn}), s \in Opt({"s1"}), d \in Opt({-1, 900}),
       f \in Opt({"creds.ini"}), dp \in Opt({"work"}), cp \in BOOLEAN }

NInit ==
  /\ disk \in FilesUpTo(MaxDiskLines)
  /\ disk0 = disk
  /\ pc = "start"
  /\ cf = Ini_new
  /\ profile = ""
  /\ creds = NoCreds
  /\ err = ""
  /\ writes = 0
  /\ argv \in NewArgvs
  /\ cmdline = NoCmdline
  /\ request = None
  /\ response = NoResponse
  /\ path = None
  /\ stdout = None
  /\ now = 0
  /\ procs = <<>>

\* A second passes before the session name is read.
Tick ==
  /\ pc \in {"start", "parsed", "client"}
  /\ now < MaxClock
  /\ now' = now + 1
  /\ UNCHANGED <<fileVars, argv, cmdline, request, response, path, stdout, procs>>

NParse ==
  /\ pc = "start"
  /\ LET r == Cmdline_parse(argv) IN
       IF r.ok
         THEN /\ cmdline' = r.cmdline
              /\ pc' = "parsed"
              /\ err' = err
         ELSE /\ cmdline' = cmdline
              /\ pc' = "usage"
              /\ err' = "usage"
  /\ UNCHANGED <<disk, disk0, cf, profile, creds, writes, argv, request, response, path, stdout, now, procs>>

NBuildRequest ==
  /\ pc = "client"
  /\ request' = Some(new_build_assume_role_request(cmdline, now))
  /\ pc' = "request"
  /\ UNCHANGED <<disk, disk0, cf, profile, creds, err, writes, argv, cmdline, response, path, stdout, now, procs>>

NDetermineCredentialFile ==
  /\ pc = "credentials"
  /\ \E home \in Homes :
       LET r == Cmdline_determine_credential_file(cmdline, home) IN
         IF r.ok
           THEN /\ path' = r.path
                /\ pc' = "path"
                /\ err' = err
           ELSE /\ path' = path
                /\ pc' = "failed"
                /\ err' = "unable to determine home directory"
  /\ UNCHANGED <<disk, disk0, cf, profile, creds, writes, argv, cmdline, request, response, stdout, now, procs>>

\* With credential_process: the JSON object goes to standard output and the
\* run ends with status 0.
NEmit ==
  /\ pc = "path"
  /\ cmdline.credential_process
  /\ stdout' = Some(emit(creds))
  /\ pc' = "done"
  /\ UNCHANGED <<disk, disk0, cf, profile, creds, err, writes, argv, cmdline, request, response, path, now, procs>>

\* Without it: CredentialFile::load of credential_file.rs.
NLoad ==
  /\ pc = "path"
  /\ ~cmdline.credential_process
  /\ LET r == load(disk) IN
       IF r.ok
         THEN /\ cf' = r.ini
              /\ pc' = "loaded"
              /\ err' = err
         ELSE /\ cf' = cf
              /\ pc' = "failed"
              /\ err' = "unable to load credential file"
  /\ UNCHANGED <<disk, disk0, profile, creds, writes, runVars, procs>>

NNext ==
  \/ Tick
  \/ NParse
  \/ BuildStsClient
  \/ BuildStsClientFails
  \/ NBuildRequest
  \/ AssumeRole
  \/ AssumeRoleFails
  \/ TakeCredentials
  \/ NDetermineCredentialFile
  \/ NEmit
  \/ NLoad
  \/ SetCredentials
  \/ Save
  \/ SaveFails

SpecNew == NInit /\ [][NNext]_vars

NewMain_FileCreatedWhenMissing ==
  ( /\ ~argv.credential_process
    /\ ~disk0.exists
    /\ response.credentials # None
    /\ pc \in {"done", "failed"}
    /\ err \notin EnvironmentErrors )
  =>
    /\ Succeeded
    /\ HoldsCredentials(disk, cmdline.dest_profile, response.credentials[1])

\* The newer main, for comparison with main.rs: a command line without
\* --session-name is accepted and the request carries "assume-role-" and
\* the clock's seconds at the time the request is built (see C8).
NewMain_SessionNameDefault ==
  /\ (pc # "start" /\ argv.role # None) => pc # "usage"
  /\ request # None =>
       request[1].role_session_name =
         IF argv.session_name # None THEN <<argv.session_name[1]>> ELSE <<"assume-role-", now>>

Procs == {1, 2}

ProcCreds == <<CredsA, CredsB>>

InFlight(p) == procs[p].pc \in {"loaded", "set", "writing"}

CInit ==
  /\ disk \in FilesUpTo(MaxDiskLines)
  /\ disk0 = disk
  /\ pc = "start"
  /\ cf = Ini_new
  /\ profile = ""
  /\ creds = NoCreds
  /\ err = ""
  /\ writes = 0
  /\ RunIdle
  /\ \E dp \in [Procs -> DestProfiles] :
       procs = [p \in Procs |->
                  [pc |-> "start", cf |-> Ini_new, profile |-> dp[p], creds |-> ProcCreds[p],
                   overlapped |-> FALSE]]

CLoad(p) ==
  /\ procs[p].pc = "start"
  /\ LET r == load(disk) IN
       procs' = [procs EXCEPT
                   ![p].pc = IF r.ok THEN "loaded" ELSE "failed",
                   ![p].cf = r.ini,
                   ![p].overlapped = \E q \in Procs \ {p} : InFlight(q)]
  /\ UNCHANGED <<fileVars, runVars>>

CSetCredentials(p) ==
  /\ procs[p].pc = "loaded"
  /\ procs' = [procs EXCEPT
                 ![p].pc = "set",
                 ![p].cf = set_credentials(@, procs[p].profile, procs[p].creds)]
  /\ UNCHANGED <<fileVars, runVars>>

\* File::create: the file exists and is empty.
CCreate(p) ==
  /\ procs[p].pc = "set"
  /\ disk' = [exists |-> TRUE, lines |-> <<>>]
  /\ procs' = [procs EXCEPT ![p].pc = "writing"]
  /\ UNCHANGED <<disk0, pc, cf, profile, creds, err, writes, runVars>>

CCreateFails(p) ==
  /\ procs[p].pc = "set"
  /\ procs' = [procs EXCEPT ![p].pc = "failed"]
  /\ UNCHANGED <<fileVars, runVars>>

CWrite(p) ==
  /\ procs[p].pc = "writing"
  /\ disk' = save(procs[p].cf)
  /\ writes' = writes + 1
  /\ procs' = [procs EXCEPT ![p].pc = "done"]
  /\ UNCHANGED <<disk0, pc, cf, profile, creds, err, runVars>>

CNext ==
  \E p \in Procs :
    \/ CLoad(p)
    \/ CSetCredentials(p)
    \/ CCreate(p)
    \/ CCreateFails(p)
    \/ CWrite(p)

SpecConc == CInit /\ [][CNext]_vars

BothDone == \A p \in Procs : procs[p].pc = "done"

\* One invocation loaded the file while the other was between its load and
\* the end of its save.
Overlapped == \E p \in Procs : procs[p].overlapped

BothPresent == \A p \in Procs : HoldsCredentials(disk, procs[p].profile, procs[p].creds)

\* C10: two invocations with different destination profiles that both
\* ended with status 0 and ran one after the other leave both profiles in
\* the file; an update is lost only when they overlapped.
C10_SerialRunsKeepBoth ==
  (BothDone /\ procs[1].profile # procs[2].profile /\ ~Overlapped) => BothPresent

\* Both invocations ended with status 0, and the file lacks the credentials
\* one of them wrote: the lost update.
C10_LostUpdate ==
  /\ BothDone
  /\ procs[1].profile # procs[2].profile
  /\ Overlapped
  /\ \E p \in Procs : ~HoldsCredentials(disk, procs[p].profile, procs[p].creds)

====
